---- MODULE Spec2Model ----
(***************************************************************************)
(* Techstore product catalog: the four HTTP handlers of                    *)
(* app/api/products/route.ts and app/api/products/[slug]/route.ts, the     *)
(* product detail page's getProduct, and the products table they share.    *)
(*                                                                         *)
(* A handler runs from its entry to its single await on the store          *)
(* (the *Start actions), the store then executes the statement atomically  *)
(* and the handler maps the result to its response (StoreReply).  Several  *)
(* handlers may be waiting on the store at once.                           *)
(*                                                                         *)
(* JSON / JavaScript values are tagged records so that undefined, null,    *)
(* "" and 0 stay distinct, as they are for !x and x === undefined.         *)
(* Prices are integers (minor units).  Timestamps are readings of one      *)
(* clock whose readings strictly increase: no two requests are received in *)
(* the same millisecond.                                                   *)
(***************************************************************************)
EXTENDS Integers, Sequences, FiniteSets, TLC

VARIABLES
  rows,       \* the products table: sequence of rows in insertion order
  nextId,     \* next value of gen_random_uuid(), never reused
  now,        \* the next reading of the clock (new Date(), now())
  envKey,     \* process.env.ADMIN_KEY
  inflight,   \* per handler slot: the store call the handler awaits, or Idle
  resp,       \* the response most recently returned, with its request
  budget,     \* number of requests the run may still receive
  productsProp,      \* ProductList: the products the home page passed in
  searchTerm,        \* ProductList: text of the search box
  selectedCategory,  \* ProductList: value of the category select
  productsState,     \* AdminPage: products, what the last fetch delivered
  loading,           \* AdminPage: loading
  adminKey,          \* AdminPage: text of the admin key input
  isAuthenticated,   \* AdminPage: isAuthenticated
  showForm,          \* AdminPage: showForm
  editingProduct,    \* AdminPage: the product being edited, or null
  formData,          \* AdminPage: the texts of the six form inputs
  formMessage,       \* AdminPage: formMessage
  fetches,           \* AdminPage: the calls of fetchProducts, in start order
  submits            \* AdminPage: the calls of handleSubmit, in start order

\* The state of the ProductList component in the browser.
view == <<productsProp, searchTerm, selectedCategory>>

\* The state of the AdminPage component in the browser, with its requests.
admin == <<productsState, loading, adminKey, isAuthenticated, showForm,
           editingProduct, formData, formMessage, fetches, submits>>

\* The state of the server and its store.
server == <<rows, nextId, now, envKey, inflight, resp>>

vars == <<rows, nextId, now, envKey, inflight, resp, budget, view, admin>>

---------------------------------------------------------------------------
\* Bounds of the exploration.
MaxReqs == 2       \* requests per run of Spec
MaxWideReqs == 1   \* requests per run of SpecInputs
MaxInFlight == 2   \* handlers that may await the store at once
MaxPageReqs == 2   \* page queries per run of SpecPages
MaxLiveReqs == 2   \* requests per run of SpecLive
MaxBareReqs == 2   \* requests per run of SpecNoSecret
MaxAdminReqs == 4  \* fetches and saves per run of SpecAdmin
MaxLoginReqs == 3  \* fetches and saves per run of SpecLogin
MaxFetchReqs == 4  \* fetches and saves per run of SpecFetch

\* Thresholds of the queries.
LowStockBelow == 5       \* p.inventory < 5
MinInventory == 10       \* .gte('inventory', 10)
RecommendLimit == 6      \* .limit(6)

---------------------------------------------------------------------------
\* JavaScript / JSON values.
Undef == [tag |-> "undefined"]
NullV == [tag |-> "null"]
Str(s) == [tag |-> "string", v |-> s]
Num(n) == [tag |-> "number", v |-> n]

\* The falsy values of JavaScript among those above: what !v is true for.
Falsy(v) ==
  \/ v.tag = "undefined"
  \/ v.tag = "null"
  \/ (v.tag = "string" /\ v.v = "")
  \/ (v.tag = "number" /\ v.v = 0)

Slugs == {"wireless-mouse", "usb-c-hub"}

\* Two of the sample rows the migration inserts (price in minor units).
SampleMouse ==
  [id |-> 1, name |-> "Wireless Mouse", slug |-> "wireless-mouse",
   description |-> "Ergonomic wireless mouse with precision tracking",
   price |-> 2999, category |-> "Electronics", inventory |-> 45,
   last_updated |-> 0, created_at |-> 0]

SampleHub ==
  [id |-> 2, name |-> "USB-C Hub", slug |-> "usb-c-hub",
   description |-> "7-in-1 USB-C hub with HDMI and USB 3.0 ports",
   price |-> 4999, category |-> "Accessories", inventory |-> 8,
   last_updated |-> 0, created_at |-> 0]

\* A row of the table.
Product(id, name, slug, category, price, inventory, t) ==
  [id |-> id, name |-> name, slug |-> slug, description |-> "",
   price |-> price, category |-> category, inventory |-> inventory,
   last_updated |-> t, created_at |-> t]

\* The two products of the aggregate example.
ExampleCatalog ==
  <<Product(1, "First", "first", "general", 10, 2, 1),
    Product(2, "Second", "second", "general", 5, 1, 2)>>

\* A catalog grown through the admin page: ten products, seven of them
\* with inventory of 10 or more, with equal prices, equal inventories and
\* equal creation times among them.
GrownCatalog ==
  <<Product(1, "Laptop Pro 15", "laptop-pro-15", "Electronics", 129999, 12, 1),
    Product(2, "Wireless Mouse", "wireless-mouse", "Electronics", 2999, 45, 2),
    Product(3, "Mechanical Keyboard", "mechanical-keyboard", "Electronics", 8999, 23, 3),
    Product(4, "USB-C Hub", "usb-c-hub", "Accessories", 4999, 10, 4),
    Product(5, "Laptop Stand", "laptop-stand", "Accessories", 3999, 3, 5),
    Product(6, "Noise Cancelling Headphones", "noise-cancelling-headphones", "Audio", 24999, 18, 6),
    Product(7, "Webcam HD", "webcam-hd", "Electronics", 8999, 15, 7),
    Product(8, "Phone Stand", "phone-stand", "Accessories", 2999, 34, 8),
    Product(9, "Monitor 27", "monitor-27", "Electronics", 39999, 5, 8),
    Product(10, "Portable SSD 1TB", "portable-ssd-1tb", "Storage", 12999, 3, 9)>>

\* The ten sample rows of the migration, in the order it inserts them.
SampleCatalog ==
  <<Product(3, "Laptop Pro 15\"", "laptop-pro-15", "Electronics", 129999, 12, 0),
    SampleMouse,
    Product(4, "Mechanical Keyboard", "mechanical-keyboard", "Electronics", 8999, 23, 0),
    SampleHub,
    Product(5, "Laptop Stand", "laptop-stand", "Accessories", 3999, 3, 0),
    Product(6, "Noise Cancelling Headphones", "noise-cancelling-headphones", "Audio", 24999, 18, 0),
    Product(7, "Portable SSD 1TB", "portable-ssd-1tb", "Storage", 12999, 2, 0),
    Product(8, "Webcam HD", "webcam-hd", "Electronics", 7999, 15, 0),
    Product(9, "Phone Stand", "phone-stand", "Accessories", 1999, 34, 0),
    Product(10, "Monitor 27\"", "monitor-27", "Electronics", 39999, 7, 0)>>

\* Products created through the admin page whose names differ in case and
\* nearly match one another.
CaseCatalog ==
  <<Product(1, "MOUSE PAD", "mouse-pad", "Accessories", 999, 20, 1),
    Product(2, "Optical Mouse", "optical-mouse", "Electronics", 1999, 9, 2),
    Product(3, "mouse", "mouse", "Electronics", 499, 1, 3),
    Product(4, "Mousse Bowl", "mousse-bowl", "Kitchen", 1499, 4, 4)>>

\* The tables the page queries are run against.
\* The first sample row and a product created through POST /api/products
\* with category "constructor": validation accepts any non-empty category.
NamedCatalog ==
  <<SampleMouse, Product(3, "Build Kit", "build-kit", "constructor", 1999, 7, 5)>>

Catalogs ==
  {<<>>, <<SampleMouse>>, <<SampleMouse, SampleHub>>, ExampleCatalog, GrownCatalog,
   NamedCatalog}

\* The secret the deployment configures; the admin page sends this key.
Secret == Str("admin123")

\* x-admin-key as headers.get returns it: null when the header is absent.
Tokens == {NullV, Str("wrong"), Secret}

Unparsable == [tag |-> "unparsable"]

BodyFields == {"name", "slug", "description", "price", "category", "inventory"}

\* A complete, valid create body for the second slug.
FullBody ==
  [name |-> Str("Hub Mini"), slug |-> Str("usb-c-hub"),
   description |-> Str("4-in-1 hub"), price |-> Num(1999),
   category |-> Str("Adapters"), inventory |-> Num(3)]

EmptyBody == [f \in BodyFields |-> Undef]

\* Other values a caller may put in each field.
AltVals(f) ==
  CASE f = "name"        -> {Undef, NullV, Str("")}
    [] f = "slug"        -> {Undef, Str(""), Str("wireless-mouse")}
    [] f = "description" -> {Undef, Str("")}
    [] f = "price"       -> {Undef, NullV, Num(0)}
    [] f = "category"    -> {Undef, Str("")}
    [] f = "inventory"   -> {Undef, NullV, Num(0)}

\* A body that also carries the keys a caller must not be able to set.
OverpostBody ==
  [name |-> Undef, slug |-> Str("laptop-stand"), description |-> Undef,
   price |-> Num(0), category |-> Undef, inventory |-> Undef,
   id |-> Num(99), created_at |-> [tag |-> "timestamp", v |-> 99]]

\* Request bodies: the complete body with one field replaced, the empty
\* body with one field supplied, a body with further keys, and a body
\* request.json() cannot parse.
Bodies ==
  {FullBody, EmptyBody, OverpostBody, Unparsable}
  \cup UNION {{[FullBody EXCEPT ![f] = a] : a \in AltVals(f)} : f \in BodyFields}
  \cup UNION {{[EmptyBody EXCEPT ![f] = a] :
                 a \in (AltVals(f) \cup {FullBody[f]}) \ {Undef}} : f \in BodyFields}

\* The bodies and tokens of the runs that go deeper (Spec).
CoreBodies ==
  {FullBody,
   [FullBody EXCEPT !.slug = Str("wireless-mouse")],
   [EmptyBody EXCEPT !.price = Num(0)],
   [EmptyBody EXCEPT !.name = Str("Hub Mini")]}

CoreTokens == {Str("wrong"), Secret}

\* The form with every input empty.
EmptyForm == [f \in BodyFields |-> ""]

\* The useState initial values of AdminPage.
AdminMounted ==
  /\ productsState = [tag |-> "array", v |-> <<>>]
  /\ loading = TRUE
  /\ adminKey = ""
  /\ isAuthenticated = FALSE
  /\ showForm = FALSE
  /\ editingProduct = [tag |-> "null"]
  /\ formData = EmptyForm
  /\ formMessage = ""
  /\ fetches = <<>>
  /\ submits = <<>>

Idle == [op |-> "idle"]
NoResp == [status |-> 0]
NoError == "null"
NoData == [tag |-> "null"]

Procs == 1..MaxInFlight

---------------------------------------------------------------------------
\* The products table (CREATE TABLE products).

TextColumns == {"name", "slug", "description", "category"}
NumColumns == {"price", "inventory"}

\* A value the column accepts: every column written by the handlers is
\* NOT NULL, text columns take strings, numeric columns take numbers and
\* last_updated takes a timestamp.
ColumnAccepts(c, v) ==
  CASE c \in TextColumns  -> v.tag = "string"
    [] c \in NumColumns   -> v.tag = "number"
    [] c = "last_updated" -> v.tag = "timestamp"

\* new Date().toISOString(), as the timestamptz column reads it back.
Iso(t) == [tag |-> "timestamp", v |-> t]

SlugTaken(tbl, s) == \E i \in 1..Len(tbl) : tbl[i].slug = s

\* Insert on a table without the UNIQUE constraint on slug.
InsertNoUnique(tbl, payload, id, t, up) ==
  IF ~up
  THEN [error |-> "unavailable", data |-> NoData, rows |-> tbl]
  ELSE IF \E c \in DOMAIN payload : ~ColumnAccepts(c, payload[c])
  THEN [error |-> "not_null_violation", data |-> NoData, rows |-> tbl]
  ELSE LET row == [id |-> id,
                   name |-> payload.name.v,
                   slug |-> payload.slug.v,
                   description |-> payload.description.v,
                   price |-> payload.price.v,
                   category |-> payload.category.v,
                   inventory |-> payload.inventory.v,
                   last_updated |-> payload.last_updated.v,
                   created_at |-> t]
       IN [error |-> NoError, data |-> row, rows |-> Append(tbl, row)]

\* Insert written as upsert on slug: a row of that slug is replaced.
InsertUpsert(tbl, payload, id, t, up) ==
  IF ~up
  THEN [error |-> "unavailable", data |-> NoData, rows |-> tbl]
  ELSE IF \E c \in DOMAIN payload : ~ColumnAccepts(c, payload[c])
  THEN [error |-> "not_null_violation", data |-> NoData, rows |-> tbl]
  ELSE LET row == [id |-> id,
                   name |-> payload.name.v,
                   slug |-> payload.slug.v,
                   description |-> payload.description.v,
                   price |-> payload.price.v,
                   category |-> payload.category.v,
                   inventory |-> payload.inventory.v,
                   last_updated |-> payload.last_updated.v,
                   created_at |-> t]
       IN [error |-> NoError, data |-> row,
           rows |-> IF SlugTaken(tbl, row.slug)
                    THEN [k \in 1..Len(tbl) |->
                            IF tbl[k].slug = row.slug THEN row ELSE tbl[k]]
                    ELSE Append(tbl, row)]

\* insert([payload]).select().single(): the outcome of the statement.
\* up = FALSE is a failure of the store itself (network, policy, outage).
Insert(tbl, payload, id, t, up) ==
  IF ~up
  THEN [error |-> "unavailable", data |-> NoData, rows |-> tbl]
  ELSE IF \E c \in DOMAIN payload : ~ColumnAccepts(c, payload[c])
  THEN [error |-> "not_null_violation", data |-> NoData, rows |-> tbl]
  ELSE IF SlugTaken(tbl, payload.slug.v)
  THEN [error |-> "unique_violation", data |-> NoData, rows |-> tbl]
  ELSE LET row == [id |-> id,
                   name |-> payload.name.v,
                   slug |-> payload.slug.v,
                   description |-> payload.description.v,
                   price |-> payload.price.v,
                   category |-> payload.category.v,
                   inventory |-> payload.inventory.v,
                   last_updated |-> payload.last_updated.v,
                   created_at |-> t]
       IN [error |-> NoError, data |-> row, rows |-> Append(tbl, row)]

\* The row after SET of the columns in updateData.
SetColumns(row, updateData) ==
  [c \in DOMAIN row |-> IF c \in DOMAIN updateData THEN updateData[c].v ELSE row[c]]

\* Update without the .eq('slug', s) filter: every row is written.
UpdateEveryRow(tbl, s, updateData, up) ==
  LET hit == {i \in 1..Len(tbl) : tbl[i].slug = s}
  IN IF ~up
     THEN [error |-> "unavailable", data |-> NoData, rows |-> tbl]
     ELSE IF Cardinality(hit) # 1
     THEN [error |-> "no_single_row", data |-> NoData, rows |-> tbl]
     ELSE IF \E c \in DOMAIN updateData : ~ColumnAccepts(c, updateData[c])
     THEN [error |-> "not_null_violation", data |-> NoData, rows |-> tbl]
     ELSE LET i == CHOOSE j \in hit : TRUE
              new == [k \in 1..Len(tbl) |-> SetColumns(tbl[k], updateData)]
          IN [error |-> NoError, data |-> new[i], rows |-> new]

\* Update ending in .maybeSingle(): no matching row is not an error.
UpdateMaybeSingle(tbl, s, updateData, up) ==
  LET hit == {i \in 1..Len(tbl) : tbl[i].slug = s}
  IN IF ~up
     THEN [error |-> "unavailable", data |-> NoData, rows |-> tbl]
     ELSE IF hit = {}
     THEN [error |-> NoError, data |-> NoData, rows |-> tbl]
     ELSE IF \E c \in DOMAIN updateData : ~ColumnAccepts(c, updateData[c])
     THEN [error |-> "not_null_violation", data |-> NoData, rows |-> tbl]
     ELSE LET i == CHOOSE j \in hit : TRUE
              new == [tbl EXCEPT ![i] = SetColumns(tbl[i], updateData)]
          IN [error |-> NoError, data |-> new[i], rows |-> new]

\* Update refusing a write whose timestamp is not later than the row's
\* (an optimistic concurrency check).
UpdateIfNewer(tbl, s, updateData, up) ==
  LET hit == {i \in 1..Len(tbl) : tbl[i].slug = s}
  IN IF ~up
     THEN [error |-> "unavailable", data |-> NoData, rows |-> tbl]
     ELSE IF Cardinality(hit) # 1
             \/ \E i \in hit : tbl[i].last_updated >= updateData.last_updated.v
     THEN [error |-> "no_single_row", data |-> NoData, rows |-> tbl]
     ELSE IF \E c \in DOMAIN updateData : ~ColumnAccepts(c, updateData[c])
     THEN [error |-> "not_null_violation", data |-> NoData, rows |-> tbl]
     ELSE LET i == CHOOSE j \in hit : TRUE
              new == [tbl EXCEPT ![i] = SetColumns(tbl[i], updateData)]
          IN [error |-> NoError, data |-> new[i], rows |-> new]

\* update(updateData).eq('slug', s).select().single(): the statement
\* takes effect only when exactly one row is returned.
Update(tbl, s, updateData, up) ==
  LET hit == {i \in 1..Len(tbl) : tbl[i].slug = s}
  IN IF ~up
     THEN [error |-> "unavailable", data |-> NoData, rows |-> tbl]
     ELSE IF Cardinality(hit) # 1
     THEN [error |-> "no_single_row", data |-> NoData, rows |-> tbl]
     ELSE IF \E c \in DOMAIN updateData : ~ColumnAccepts(c, updateData[c])
     THEN [error |-> "not_null_violation", data |-> NoData, rows |-> tbl]
     ELSE LET i == CHOOSE j \in hit : TRUE
              new == [tbl EXCEPT ![i] = SetColumns(tbl[i], updateData)]
          IN [error |-> NoError, data |-> new[i], rows |-> new]

\* The query ending in .single(): no row is an error.
SelectSingle(tbl, s, up) ==
  LET hit == {i \in 1..Len(tbl) : tbl[i].slug = s}
  IN IF ~up
     THEN [error |-> "unavailable", data |-> NoData, rows |-> tbl]
     ELSE IF Cardinality(hit) # 1
     THEN [error |-> "no_single_row", data |-> NoData, rows |-> tbl]
     ELSE [error |-> NoError, data |-> tbl[CHOOSE j \in hit : TRUE], rows |-> tbl]

\* select('*').eq('slug', s).maybeSingle(): no row is not an error.
SelectMaybeSingle(tbl, s, up) ==
  LET hit == {i \in 1..Len(tbl) : tbl[i].slug = s}
  IN IF ~up
     THEN [error |-> "unavailable", data |-> NoData, rows |-> tbl]
     ELSE IF Cardinality(hit) > 1
     THEN [error |-> "no_single_row", data |-> NoData, rows |-> tbl]
     ELSE IF hit = {}
     THEN [error |-> NoError, data |-> NoData, rows |-> tbl]
     ELSE [error |-> NoError, data |-> tbl[CHOOSE j \in hit : TRUE], rows |-> tbl]

\* The orders in which ORDER BY key may return the rows with indices in S:
\* rows of equal key come in an order the store chooses.
RECURSIVE Orders(_, _, _, _)
Orders(tbl, S, key, desc) ==
  IF S = {} THEN {<<>>}
  ELSE LET first == {i \in S : \A j \in S :
                       IF desc THEN tbl[i][key] >= tbl[j][key]
                       ELSE tbl[i][key] <= tbl[j][key]}
       IN UNION {{<<tbl[i]>> \o o : o \in Orders(tbl, S \ {i}, key, desc)} : i \in first}

\* ORDER BY created_at ASC.
OrderedByCreatedAsc(tbl) == Orders(tbl, 1..Len(tbl), "created_at", FALSE)

\* .order('created_at', { ascending: false })
OrderedByCreatedDesc(tbl) == Orders(tbl, 1..Len(tbl), "created_at", TRUE)

\* .order('inventory', { ascending: true })
OrderedByInventoryAsc(tbl) == Orders(tbl, 1..Len(tbl), "inventory", FALSE)

\* The first n elements of a sequence.
Take(seq, n) == SubSeq(seq, 1, IF Len(seq) < n THEN Len(seq) ELSE n)

\* The query with .gt('inventory', 10).
RecommendedAbove(tbl) ==
  {Take(o, RecommendLimit) :
     o \in Orders(tbl, {i \in 1..Len(tbl) : tbl[i].inventory > MinInventory}, "price", TRUE)}

\* .gte('inventory', 10).order('price', { ascending: false }).limit(6):
\* the results the store may return.
Recommended(tbl) ==
  {Take(o, RecommendLimit) :
     o \in Orders(tbl, {i \in 1..Len(tbl) : tbl[i].inventory >= MinInventory}, "price", TRUE)}

\* A select of several rows, returning listing.
SelectAll(tbl, listing, up) ==
  IF ~up THEN [error |-> "unavailable", data |-> NoData, rows |-> tbl]
  ELSE [error |-> NoError, data |-> [tag |-> "array", v |-> listing], rows |-> tbl]

---------------------------------------------------------------------------
\* The handlers.

Request(m, tok, s, body) ==
  [method |-> m, token |-> tok, slug |-> s, body |-> body, at |-> now]

\* A response, with what the store answered to the handler's call
\* ("uncalled" when the handler returned without calling the store).
Response(req, status, data, answer) ==
  [req |-> req, status |-> status, data |-> data, store |-> answer]

\* The handler slot a new request runs in.
FreeSlot == CHOOSE p \in Procs : inflight[p] = Idle /\ \A q \in Procs : q < p => inflight[q] # Idle

CanStart == budget > 0 /\ \E p \in Procs : inflight[p] = Idle

\* The handler returns without calling the store.
Return(req, status) ==
  /\ resp' = Response(req, status, NoData, "uncalled")
  /\ budget' = budget - 1
  /\ now' = now + 1
  /\ UNCHANGED <<rows, nextId, envKey, inflight, view, admin>>

\* The handler awaits the store call.
Await(call) ==
  /\ inflight' = [inflight EXCEPT ![FreeSlot] = call @@ [attempt |-> 1]]
  /\ budget' = budget - 1
  /\ now' = now + 1
  /\ UNCHANGED <<rows, nextId, envKey, resp, view, admin>>

\* The comparison made only when the header was sent.
UnauthorizedWhenSent(tok) == tok # NullV /\ tok # envKey

\* adminKey != process.env.ADMIN_KEY: under loose inequality null and
\* undefined are equal.
UnauthorizedLoose(tok) ==
  ~(tok = envKey \/ (tok \in {NullV, Undef} /\ envKey \in {NullV, Undef}))

\* adminKey !== process.env.ADMIN_KEY
Unauthorized(tok) == tok # envKey

\* The check with !price and !inventory: 0 counts as missing.
MissingRequiredTruthy(body) ==
  \/ Falsy(body.name)
  \/ Falsy(body.slug)
  \/ Falsy(body.description)
  \/ Falsy(body.price)
  \/ Falsy(body.category)
  \/ Falsy(body.inventory)

\* !name || !slug || !description || price === undefined || !category
\*   || inventory === undefined
MissingRequired(body) ==
  \/ Falsy(body.name)
  \/ Falsy(body.slug)
  \/ Falsy(body.description)
  \/ body.price = Undef
  \/ Falsy(body.category)
  \/ body.inventory = Undef

\* The inserted object with category taken from the wrong variable.
InsertPayloadMixed(body, t) ==
  [name |-> body.name, slug |-> body.slug, description |-> body.description,
   price |-> body.price, category |-> body.name,
   inventory |-> body.inventory, last_updated |-> Iso(t)]

\* The object POST inserts.
InsertPayload(body, t) ==
  [name |-> body.name, slug |-> body.slug, description |-> body.description,
   price |-> body.price, category |-> body.category,
   inventory |-> body.inventory, last_updated |-> Iso(t)]

\* The destructuring that also takes slug from the body.
UpdateFieldsAndSlug == {"name", "slug", "description", "price", "category", "inventory"}

UpdateFields == {"name", "description", "price", "category", "inventory"}

\* updateData built with if (field): falsy values are dropped.
UpdateDataTruthy(body, t) ==
  [c \in {f \in UpdateFields : ~Falsy(body[f])} \cup {"last_updated"} |->
     IF c = "last_updated" THEN Iso(t) ELSE body[c]]

\* updateData of PUT: last_updated and each field that is not undefined.
UpdateData(body, t) ==
  [c \in {f \in UpdateFields : body[f] # Undef} \cup {"last_updated"} |->
     IF c = "last_updated" THEN Iso(t) ELSE body[c]]

\* POST /api/products up to its store call.
PostStart(tok, body) ==
  /\ CanStart
  /\ LET req == Request("POST", tok, "", body)
     IN IF Unauthorized(tok) THEN Return(req, 401)
        ELSE IF body = Unparsable THEN Return(req, 500)
        ELSE IF MissingRequired(body) THEN Return(req, 400)
        ELSE Await([op |-> "insert", req |-> req, payload |-> InsertPayload(body, now)])

\* PUT /api/products/[slug] up to its store call.
PutStart(tok, s, body) ==
  /\ CanStart
  /\ LET req == Request("PUT", tok, s, body)
     IN IF Unauthorized(tok) THEN Return(req, 401)
        ELSE IF body = Unparsable THEN Return(req, 500)
        ELSE Await([op |-> "update", req |-> req, updateData |-> UpdateData(body, now)])

\* GET /api/products/[slug] up to its store call.
GetStart(s) ==
  /\ CanStart
  /\ Await([op |-> "select", req |-> Request("GET", NullV, s, Unparsable)])

\* GET /api/products up to its store call.
ListStart ==
  /\ CanStart
  /\ Await([op |-> "list", req |-> Request("LIST", NullV, "", Unparsable)])

\* The product detail page's getProduct up to its store call.
PageStart(s) ==
  /\ CanStart
  /\ Await([op |-> "pageSelect", req |-> Request("PAGE", NullV, s, Unparsable)])

\* What each handler answers from the store's result.
PostReply(req, r) ==
  IF r.error # NoError THEN Response(req, 500, NoData, r.error)
  ELSE Response(req, 201, r.data, r.error)

PutReply(req, r) ==
  IF r.error # NoError THEN Response(req, 500, NoData, r.error)
  ELSE Response(req, 200, r.data, r.error)

GetReply(req, r) ==
  IF r.error # NoError THEN Response(req, 500, NoData, r.error)
  ELSE IF r.data = NoData THEN Response(req, 404, NoData, r.error)
  ELSE Response(req, 200, r.data, r.error)

ListReply(req, r) ==
  IF r.error # NoError THEN Response(req, 500, NoData, r.error)
  ELSE Response(req, 200, r.data, r.error)

\* getProduct returns null on a store error and the product otherwise.
getProduct(r) == IF r.error # NoError THEN NoData ELSE r.data

\* ProductPage calls notFound() (the 404 page) when getProduct gave null.
PageReply(req, r) ==
  LET product == getProduct(r)
  IN IF product = NoData THEN Response(req, 404, NoData, r.error)
     ELSE Response(req, 200, product, r.error)

\* The home page's getProducts up to its store call.
HomeStart ==
  /\ CanStart
  /\ Await([op |-> "home", req |-> Request("HOME", NullV, "", Unparsable)])

\* The dashboard's getDashboardData up to its store call.
DashboardStart ==
  /\ CanStart
  /\ Await([op |-> "dashboard", req |-> Request("DASHBOARD", NullV, "", Unparsable)])

\* The recommendations page's getRecommendedProducts up to its store call.
RecommendStart ==
  /\ CanStart
  /\ Await([op |-> "recommend", req |-> Request("RECOMMEND", NullV, "", Unparsable)])

\* getProducts: [] on a store error, the rows otherwise.
getProducts(r) == IF r.error # NoError THEN <<>> ELSE r.data.v

\* getRecommendedProducts: [] on a store error, the rows otherwise.
getRecommendedProducts(r) == IF r.error # NoError THEN <<>> ELSE r.data.v

\* products.filter((p) => p.inventory < 5)
LowStock(products) ==
  LET RECURSIVE Keep(_)
      Keep(k) == IF k = 0 THEN <<>>
                 ELSE IF products[k].inventory < LowStockBelow
                 THEN Append(Keep(k - 1), products[k])
                 ELSE Keep(k - 1)
  IN Keep(Len(products))

\* The reduce that adds the prices only.
TotalPrice(products) ==
  LET RECURSIVE Sum(_)
      Sum(k) == IF k = 0 THEN 0 ELSE Sum(k - 1) + products[k].price
  IN Sum(Len(products))

\* products.reduce((sum, p) => sum + Number(p.price) * p.inventory, 0)
TotalValue(products) ==
  LET RECURSIVE Sum(_)
      Sum(k) == IF k = 0 THEN 0
                ELSE Sum(k - 1) + products[k].price * products[k].inventory
  IN Sum(Len(products))

\* The property names an object literal {} inherits from Object.prototype:
\* acc[name] is defined for them before any assignment.
InheritedKeys ==
  {"constructor", "toString", "toLocaleString", "valueOf", "hasOwnProperty",
   "isPrototypeOf", "propertyIsEnumerable", "__proto__"}

\* acc[c] of the accumulator: its own property, else an inherited member
\* (a function or the prototype object, converted to a string by +), else
\* undefined.
Lookup(acc, c) ==
  IF c \in DOMAIN acc THEN acc[c]
  ELSE IF c \in InheritedKeys THEN Str("[inherited]")
  ELSE Undef

\* (v || 0) + 1: numeric addition for a number, string concatenation for
\* the string a truthy non-number becomes.
OrZeroPlusOne(v) ==
  IF Falsy(v) THEN Num(1)
  ELSE IF v.tag = "number" THEN Num(v.v + 1)
  ELSE Str(v.v \o "1")

\* products.reduce((acc, p) => { acc[p.category] = (acc[p.category] || 0) + 1;
\*   return acc; }, {}): an object from category to count. Assigning a
\* string to __proto__ is ignored and creates no key.
CategoryCounts(products) ==
  LET RECURSIVE Count(_)
      Count(k) ==
        IF k = 0 THEN <<>>
        ELSE LET acc == Count(k - 1)
                 c == products[k].category
                 n == OrZeroPlusOne(Lookup(acc, c))
             IN IF c = "__proto__" THEN acc
                ELSE [d \in DOMAIN acc \cup {c} |-> IF d = c THEN n ELSE acc[d]]
  IN Count(Len(products))

\* What getDashboardData returns on a store error.
ZeroDashboard ==
  [products |-> <<>>, totalProducts |-> 0, lowStockProducts |-> <<>>,
   totalValue |-> 0, categories |-> <<>>]

\* getDashboardData from the store's result.
getDashboardData(r) ==
  IF r.error # NoError THEN ZeroDashboard
  ELSE LET products == r.data.v
       IN [products |-> products,
           totalProducts |-> Len(products),
           lowStockProducts |-> LowStock(products),
           totalValue |-> TotalValue(products),
           categories |-> CategoryCounts(products)]

\* The home page query raising the store's error to its caller.
HomeReplyRaising(req, r) ==
  IF r.error # NoError THEN Response(req, 500, NoData, r.error)
  ELSE Response(req, 200, r.data.v, r.error)

\* What the page-level queries hand to their pages (status 200: the
\* function returned a value).
HomeReply(req, r) == Response(req, 200, getProducts(r), r.error)

DashboardReply(req, r) == Response(req, 200, getDashboardData(r), r.error)

RecommendReply(req, r) == Response(req, 200, getRecommendedProducts(r), r.error)

\* The texts typed into the search box.
SearchTerms == {"", "mouse", "MOUSE", "Mouse", "stand", "o", "ss", "xyz", "wireless mouse pad"}

\* The UTF-16 code units of the strings the component handles.
Chars ==
  ("Laptop Pro 15\"" :> <<"L", "a", "p", "t", "o", "p", " ", "P", "r", "o", " ", "1", "5", "\"">>) @@
  ("Wireless Mouse" :> <<"W", "i", "r", "e", "l", "e", "s", "s", " ", "M", "o", "u", "s", "e">>) @@
  ("Mechanical Keyboard" :> <<"M", "e", "c", "h", "a", "n", "i", "c", "a", "l", " ", "K", "e", "y", "b", "o", "a", "r", "d">>) @@
  ("USB-C Hub" :> <<"U", "S", "B", "-", "C", " ", "H", "u", "b">>) @@
  ("Laptop Stand" :> <<"L", "a", "p", "t", "o", "p", " ", "S", "t", "a", "n", "d">>) @@
  ("Noise Cancelling Headphones" :> <<"N", "o", "i", "s", "e", " ", "C", "a", "n", "c", "e", "l", "l", "i", "n", "g", " ", "H", "e", "a", "d", "p", "h", "o", "n", "e", "s">>) @@
  ("Portable SSD 1TB" :> <<"P", "o", "r", "t", "a", "b", "l", "e", " ", "S", "S", "D", " ", "1", "T", "B">>) @@
  ("Webcam HD" :> <<"W", "e", "b", "c", "a", "m", " ", "H", "D">>) @@
  ("Phone Stand" :> <<"P", "h", "o", "n", "e", " ", "S", "t", "a", "n", "d">>) @@
  ("Monitor 27\"" :> <<"M", "o", "n", "i", "t", "o", "r", " ", "2", "7", "\"">>) @@
  ("MOUSE PAD" :> <<"M", "O", "U", "S", "E", " ", "P", "A", "D">>) @@
  ("Optical Mouse" :> <<"O", "p", "t", "i", "c", "a", "l", " ", "M", "o", "u", "s", "e">>) @@
  ("mouse" :> <<"m", "o", "u", "s", "e">>) @@
  ("Mousse Bowl" :> <<"M", "o", "u", "s", "s", "e", " ", "B", "o", "w", "l">>) @@
  ("" :> <<>>) @@
  ("MOUSE" :> <<"M", "O", "U", "S", "E">>) @@
  ("Mouse" :> <<"M", "o", "u", "s", "e">>) @@
  ("stand" :> <<"s", "t", "a", "n", "d">>) @@
  ("o" :> <<"o">>) @@
  ("ss" :> <<"s", "s">>) @@
  ("xyz" :> <<"x", "y", "z">>) @@
  ("wireless mouse pad" :> <<"w", "i", "r", "e", "l", "e", "s", "s", " ", "m", "o", "u", "s", "e", " ", "p", "a", "d">>)

\* The lower-case mapping of the letters A to Z; other code units of the
\* strings above are mapped to themselves.
LowerCase ==
  ("A" :> "a") @@ ("B" :> "b") @@ ("C" :> "c") @@ ("D" :> "d") @@ ("E" :> "e") @@ ("F" :> "f") @@
  ("G" :> "g") @@ ("H" :> "h") @@ ("I" :> "i") @@ ("J" :> "j") @@ ("K" :> "k") @@ ("L" :> "l") @@
  ("M" :> "m") @@ ("N" :> "n") @@ ("O" :> "o") @@ ("P" :> "p") @@ ("Q" :> "q") @@ ("R" :> "r") @@
  ("S" :> "s") @@ ("T" :> "t") @@ ("U" :> "u") @@ ("V" :> "v") @@ ("W" :> "w") @@ ("X" :> "x") @@
  ("Y" :> "y") @@ ("Z" :> "z")

\* String.prototype.toLowerCase, unit by unit.
toLowerCase(str) ==
  [i \in DOMAIN str |-> IF str[i] \in DOMAIN LowerCase THEN LowerCase[str[i]] ELSE str[i]]

\* String.prototype.includes: the needle occurs at some position.
includes(str, needle) ==
  \E i \in 0..(Len(str) - Len(needle)) : SubSeq(str, i + 1, i + Len(needle)) = needle

\* ['all', ...new Set(products.map((p) => p.category))]: the options of
\* the category select.
categories(list) == {"all"} \cup {list[i].category : i \in 1..Len(list)}

\* The filter comparing the name as typed, without toLowerCase.
filteredTyped(list, term, selected) ==
  LET Keep(product) ==
        /\ includes(Chars[product.name], toLowerCase(Chars[term]))
        /\ (selected = "all" \/ product.category = selected)
  IN SelectSeq(list, Keep)

\* products.filter(...): the products the component shows.
filtered(list, term, selected) ==
  LET Keep(product) ==
        LET matchesSearch ==
              includes(toLowerCase(Chars[product.name]), toLowerCase(Chars[term]))
            matchesCategory == selected = "all" \/ product.category = selected
        IN matchesSearch /\ matchesCategory
  IN SelectSeq(list, Keep)

filteredProducts == filtered(productsProp, searchTerm, selectedCategory)

\* onChange of the search box.
setSearchTerm(term) ==
  /\ searchTerm # term
  /\ searchTerm' = term
  /\ UNCHANGED <<rows, nextId, now, envKey, inflight, resp, budget,
                 productsProp, selectedCategory, admin>>

\* onChange of the category select.
setSelectedCategory(c) ==
  /\ c \in categories(productsProp)
  /\ selectedCategory # c
  /\ selectedCategory' = c
  /\ UNCHANGED <<rows, nextId, now, envKey, inflight, resp, budget,
                 productsProp, searchTerm, admin>>

\* The store executes the call handler p awaits and p returns its response.
StoreReply(p, up) ==
  /\ inflight[p] # Idle
  /\ LET call == inflight[p]
     IN CASE call.op = "insert" ->
               LET r == Insert(rows, call.payload, nextId, now, up)
               IN /\ rows' = r.rows
                  /\ nextId' = IF r.error # NoError THEN nextId ELSE nextId + 1
                  /\ now' = IF r.error # NoError THEN now ELSE now + 1
                  /\ resp' = PostReply(call.req, r)
          [] call.op = "update" ->
               LET r == Update(rows, call.req.slug, call.updateData, up)
               IN /\ rows' = r.rows
                  /\ resp' = PutReply(call.req, r)
                  /\ UNCHANGED <<nextId, now>>
          [] call.op = "select" ->
               LET r == SelectMaybeSingle(rows, call.req.slug, up)
               IN /\ resp' = GetReply(call.req, r)
                  /\ UNCHANGED <<rows, nextId, now>>
          [] call.op = "pageSelect" ->
               LET r == SelectMaybeSingle(rows, call.req.slug, up)
               IN /\ resp' = PageReply(call.req, r)
                  /\ UNCHANGED <<rows, nextId, now>>
          [] call.op = "list" ->
               \E listing \in OrderedByCreatedDesc(rows) :
                 /\ resp' = ListReply(call.req, SelectAll(rows, listing, up))
                 /\ UNCHANGED <<rows, nextId, now>>
          [] call.op = "home" ->
               \E listing \in OrderedByCreatedDesc(rows) :
                 LET r == SelectAll(rows, listing, up)
                 IN /\ resp' = HomeReply(call.req, r)
                    /\ UNCHANGED <<rows, nextId, now>>
          [] call.op = "dashboard" ->
               \E listing \in OrderedByInventoryAsc(rows) :
                 LET r == SelectAll(rows, listing, up)
                 IN /\ resp' = DashboardReply(call.req, r)
                    /\ UNCHANGED <<rows, nextId, now>>
          [] call.op = "recommend" ->
               \E listing \in Recommended(rows) :
                 LET r == SelectAll(rows, listing, up)
                 IN /\ resp' = RecommendReply(call.req, r)
                    /\ UNCHANGED <<rows, nextId, now>>
  /\ inflight' = [inflight EXCEPT ![p] = Idle]
  /\ UNCHANGED <<envKey, budget, view, admin>>

\* The awaited store call of a route handler rejects and the handler's
\* catch block answers with a status outside the documented ones.
CatchReplyGateway(req) == Response(req, 502, NoData, "thrown")

\* The catch block of the four route handlers.
CatchReply(req) == Response(req, 500, NoData, "thrown")

\* The catch block calling the store a second time before it answers.
StoreThrowsRetry(p) ==
  /\ inflight[p] # Idle
  /\ inflight[p].op \in {"insert", "update", "select", "list"}
  /\ IF inflight[p].attempt = 1
     THEN /\ inflight' = [inflight EXCEPT ![p].attempt = 2]
          /\ UNCHANGED resp
     ELSE /\ resp' = Response(inflight[p].req, 500, NoData, "thrown")
          /\ inflight' = [inflight EXCEPT ![p] = Idle]
  /\ UNCHANGED <<rows, nextId, now, envKey, budget, view, admin>>

\* The store call route handler p awaits throws before the store has
\* executed the statement; the handler's catch block answers.
StoreThrows(p) ==
  /\ inflight[p] # Idle
  /\ inflight[p].op \in {"insert", "update", "select", "list"}
  /\ resp' = CatchReply(inflight[p].req)
  /\ inflight' = [inflight EXCEPT ![p] = Idle]
  /\ UNCHANGED <<rows, nextId, now, envKey, budget, view, admin>>

---------------------------------------------------------------------------
\* The admin page (src/app/admin/page.tsx).

NoProduct == [tag |-> "null"]

NaN == [tag |-> "NaN"]

\* Number.prototype.toString for the numbers the page handles.
NumberText ==
  (0 :> "0") @@ (3 :> "3") @@ (8 :> "8") @@ (45 :> "45") @@
  (1999 :> "1999") @@ (2999 :> "2999") @@ (4999 :> "4999")

\* parseFloat: the number a text denotes, NaN for the empty text and for
\* any text that denotes none.
parseFloat(text) ==
  IF \E n \in DOMAIN NumberText : NumberText[n] = text
  THEN Num(CHOOSE n \in DOMAIN NumberText : NumberText[n] = text)
  ELSE NaN

\* parseInt: as parseFloat on the texts of whole numbers.
parseInt(text) ==
  IF \E n \in DOMAIN NumberText : NumberText[n] = text
  THEN Num(CHOOSE n \in DOMAIN NumberText : NumberText[n] = text)
  ELSE NaN

\* JSON.stringify of a number: NaN is written as null.
stringify(v) == IF v = NaN THEN NullV ELSE v

\* The body handleSubmit sends, as request.json() reads it.
SubmitBody(fd) ==
  [name |-> Str(fd.name), slug |-> Str(fd.slug), description |-> Str(fd.description),
   price |-> stringify(parseFloat(fd.price)), category |-> Str(fd.category),
   inventory |-> stringify(parseInt(fd.inventory))]

\* setFormData of handleEdit: the product's fields as texts.
FormOf(product) ==
  [name |-> product.name, slug |-> product.slug, description |-> product.description,
   price |-> NumberText[product.price], category |-> product.category,
   inventory |-> NumberText[product.inventory]]

\* response.ok
Ok(response) == response.status \in 200..299

\* The error property of the JSON body of a response that is not ok.
ErrorText(response) ==
  CASE response.status = 401 -> "Unauthorized: Invalid admin key"
    [] response.status = 400 -> "Missing required fields"
    [] OTHER -> response.store

\* await response.json()
Json(response) ==
  IF Ok(response) THEN response.data
  ELSE [tag |-> "object", error |-> ErrorText(response)]

\* The page can be rendered: the product table maps over products.
Renders == ~isAuthenticated \/ loading \/ productsState.tag = "array"

\* fetchProducts up to its await: setLoading(true) and the request.
fetchProducts ==
  /\ loading' = TRUE
  /\ fetches' = Append(fetches, [state |-> "sent"])

\* onChange of the admin key input of the login form.
setAdminKey(text) ==
  /\ ~isAuthenticated
  /\ adminKey # text
  /\ adminKey' = text
  /\ UNCHANGED <<server, budget, view, productsState, loading, isAuthenticated,
                 showForm, editingProduct, formData, formMessage, fetches, submits>>

\* handleLogin accepting any key that was typed.
handleLoginAny ==
  /\ ~isAuthenticated
  /\ adminKey # ""
  /\ budget >= 1
  /\ isAuthenticated' = TRUE
  /\ fetchProducts
  /\ budget' = budget - 1
  /\ UNCHANGED <<server, view, productsState, adminKey, showForm, editingProduct,
                 formData, formMessage, submits>>

\* handleLogin, and the effect that fetches once isAuthenticated is true.
\* A wrong key raises an alert and changes nothing.
handleLogin ==
  /\ ~isAuthenticated
  /\ adminKey # ""
  /\ budget >= 1
  /\ IF adminKey = "admin123"
     THEN /\ isAuthenticated' = TRUE
          /\ fetchProducts
          /\ budget' = budget - 1
     ELSE UNCHANGED <<isAuthenticated, loading, fetches, budget>>
  /\ UNCHANGED <<server, view, productsState, adminKey, showForm, editingProduct,
                 formData, formMessage, submits>>

\* The Logout button.
Logout ==
  /\ isAuthenticated
  /\ Renders
  /\ isAuthenticated' = FALSE
  /\ UNCHANGED <<server, budget, view, productsState, loading, adminKey, showForm,
                 editingProduct, formData, formMessage, fetches, submits>>

\* The Add Product button: setShowForm(!showForm).
ToggleForm ==
  /\ isAuthenticated
  /\ Renders
  /\ showForm' = ~showForm
  /\ UNCHANGED <<server, budget, view, productsState, loading, adminKey,
                 isAuthenticated, editingProduct, formData, formMessage, fetches,
                 submits>>

\* The Edit button of the k-th row of the product table.
handleEdit(k) ==
  /\ isAuthenticated
  /\ ~loading
  /\ productsState.tag = "array"
  /\ k \in 1..Len(productsState.v)
  /\ editingProduct' = productsState.v[k]
  /\ formData' = FormOf(productsState.v[k])
  /\ showForm' = TRUE
  /\ UNCHANGED <<server, budget, view, productsState, loading, adminKey,
                 isAuthenticated, formMessage, fetches, submits>>

\* The Cancel button of the form.
handleCancel ==
  /\ isAuthenticated
  /\ Renders
  /\ showForm
  /\ showForm' = FALSE
  /\ editingProduct' = NoProduct
  /\ formData' = EmptyForm
  /\ formMessage' = ""
  /\ UNCHANGED <<server, budget, view, productsState, loading, adminKey,
                 isAuthenticated, fetches, submits>>

\* onChange of a form input with the slug input enabled while editing.
setFormDataAnyField(f, text) ==
  /\ isAuthenticated
  /\ Renders
  /\ showForm
  /\ formData[f] # text
  /\ formData' = [formData EXCEPT ![f] = text]
  /\ UNCHANGED <<server, budget, view, productsState, loading, adminKey,
                 isAuthenticated, showForm, editingProduct, formMessage, fetches,
                 submits>>

\* onChange of a form input: setFormData({ ...formData, [f]: text }).  The
\* slug input is disabled while a product is being edited.
setFormData(f, text) ==
  /\ isAuthenticated
  /\ Renders
  /\ showForm
  /\ f = "slug" => editingProduct = NoProduct
  /\ formData[f] # text
  /\ formData' = [formData EXCEPT ![f] = text]
  /\ UNCHANGED <<server, budget, view, productsState, loading, adminKey,
                 isAuthenticated, showForm, editingProduct, formMessage, fetches,
                 submits>>

\* handleSubmit up to its await.  The browser submits the form only when
\* every required input has a value.
handleSubmit ==
  /\ isAuthenticated
  /\ Renders
  /\ showForm
  /\ \A f \in BodyFields : formData[f] # ""
  /\ budget >= 2
  /\ formMessage' = ""
  /\ submits' = Append(submits,
       [state |-> "sent",
        method |-> IF editingProduct # NoProduct THEN "PUT" ELSE "POST",
        slug |-> IF editingProduct # NoProduct THEN editingProduct.slug ELSE "",
        token |-> Str(adminKey),
        body |-> SubmitBody(formData),
        editing |-> editingProduct])
  /\ budget' = budget - 2
  /\ UNCHANGED <<server, view, productsState, loading, adminKey, isAuthenticated,
                 showForm, editingProduct, formData, fetches>>

\* POST /api/products handling one request from start to response.
HandlePost(req, up) ==
  IF Unauthorized(req.token)
  THEN [response |-> Response(req, 401, NoData, "uncalled"), rows |-> rows]
  ELSE IF MissingRequired(req.body)
  THEN [response |-> Response(req, 400, NoData, "uncalled"), rows |-> rows]
  ELSE LET r == Insert(rows, InsertPayload(req.body, now), nextId, now, up)
       IN [response |-> PostReply(req, r), rows |-> r.rows]

\* PUT /api/products/[slug] handling one request from start to response.
HandlePut(req, up) ==
  IF Unauthorized(req.token)
  THEN [response |-> Response(req, 401, NoData, "uncalled"), rows |-> rows]
  ELSE LET r == Update(rows, req.slug, UpdateData(req.body, now), up)
       IN [response |-> PutReply(req, r), rows |-> r.rows]

\* The server handles the request of the i-th submit.
SubmitServed(i, up) ==
  /\ i \in 1..Len(submits)
  /\ submits[i].state = "sent"
  /\ LET sub == submits[i]
         req == Request(sub.method, sub.token, sub.slug, sub.body)
         h == IF sub.method = "POST" THEN HandlePost(req, up) ELSE HandlePut(req, up)
     IN /\ rows' = h.rows
        /\ nextId' = IF Len(h.rows) > Len(rows) THEN nextId + 1 ELSE nextId
        /\ submits' = [submits EXCEPT ![i] =
                         [sub EXCEPT !.state = "answered"] @@ [response |-> h.response]]
  /\ now' = now + 1
  /\ UNCHANGED <<envKey, inflight, resp, budget, view, productsState, loading,
                 adminKey, isAuthenticated, showForm, editingProduct, formData,
                 formMessage, fetches>>

\* handleSubmit after a response that is not ok refetching all the same.
AfterSubmitAlwaysRefetch(sub) ==
  IF Ok(sub.response)
  THEN /\ formMessage' = IF sub.editing # NoProduct
                         THEN "Product updated successfully!"
                         ELSE "Product created successfully!"
       /\ showForm' = FALSE
       /\ editingProduct' = NoProduct
       /\ formData' = EmptyForm
       /\ fetchProducts
  ELSE /\ formMessage' = ErrorText(sub.response)
       /\ fetchProducts
       /\ UNCHANGED <<showForm, editingProduct, formData>>

\* handleSubmit from the response on.
AfterSubmit(sub) ==
  IF Ok(sub.response)
  THEN /\ formMessage' = IF sub.editing # NoProduct
                         THEN "Product updated successfully!"
                         ELSE "Product created successfully!"
       /\ showForm' = FALSE
       /\ editingProduct' = NoProduct
       /\ formData' = EmptyForm
       /\ fetchProducts
  ELSE /\ formMessage' = ErrorText(sub.response)
       /\ UNCHANGED <<showForm, editingProduct, formData, loading, fetches>>

\* The response of the i-th submit arrives.
SubmitSettles(i) ==
  /\ i \in 1..Len(submits)
  /\ submits[i].state = "answered"
  /\ AfterSubmit(submits[i])
  /\ submits' = [submits EXCEPT ![i].state = "done"]
  /\ UNCHANGED <<server, budget, view, productsState, adminKey, isAuthenticated>>

\* fetch of the i-th submit rejects (network error): the catch block.
SubmitFails(i) ==
  /\ i \in 1..Len(submits)
  /\ submits[i].state \in {"sent", "answered"}
  /\ formMessage' = "Failed to fetch"
  /\ submits' = [submits EXCEPT ![i].state = "failed"]
  /\ UNCHANGED <<server, budget, view, productsState, loading, adminKey,
                 isAuthenticated, showForm, editingProduct, formData, fetches>>

\* The server handles the GET /api/products of the i-th fetch.
FetchServed(i, up) ==
  /\ i \in 1..Len(fetches)
  /\ fetches[i].state = "sent"
  /\ \E listing \in OrderedByCreatedDesc(rows) :
       LET req == Request("LIST", NullV, "", Unparsable)
       IN fetches' = [fetches EXCEPT ![i] =
            [state |-> "answered",
             response |-> ListReply(req, SelectAll(rows, listing, up))]]
  /\ now' = now + 1
  /\ UNCHANGED <<rows, nextId, envKey, inflight, resp, budget, view, productsState,
                 loading, adminKey, isAuthenticated, showForm, editingProduct,
                 formData, formMessage, submits>>

\* fetchProducts from the response on: setProducts(data), then the finally
\* block.
AfterFetch(f) ==
  /\ productsState' = Json(f.response)
  /\ loading' = FALSE

\* The response of the i-th fetch arrives.
FetchSettles(i) ==
  /\ i \in 1..Len(fetches)
  /\ fetches[i].state = "answered"
  /\ AfterFetch(fetches[i])
  /\ fetches' = [fetches EXCEPT ![i].state = "done"]
  /\ UNCHANGED <<server, budget, view, adminKey, isAuthenticated, showForm,
                 editingProduct, formData, formMessage, submits>>

\* fetch of the i-th fetchProducts rejects: the catch and finally blocks.
FetchFails(i) ==
  /\ i \in 1..Len(fetches)
  /\ fetches[i].state \in {"sent", "answered"}
  /\ loading' = FALSE
  /\ fetches' = [fetches EXCEPT ![i].state = "failed"]
  /\ UNCHANGED <<server, budget, view, productsState, adminKey, isAuthenticated,
                 showForm, editingProduct, formData, formMessage, submits>>

\* The state after deployment: the migration has run, no request yet.
Start(n) ==
  /\ rows \in {<<SampleMouse>>, <<SampleMouse, SampleHub>>}
  /\ nextId = 3
  /\ now = 1
  /\ envKey = Secret
  /\ inflight = [p \in Procs |-> Idle]
  /\ resp = NoResp
  /\ budget = n
  /\ productsProp = <<>>
  /\ searchTerm = ""
  /\ selectedCategory = "all"
  /\ AdminMounted

Init == Start(MaxReqs)

InitInputs == Start(MaxWideReqs)

\* The steps that take no body.
Serve ==
  \/ \E s \in Slugs : GetStart(s)
  \/ ListStart
  \/ \E s \in Slugs : PageStart(s)
  \/ \E p \in Procs, up \in BOOLEAN : StoreReply(p, up)
  \/ \E p \in Procs : StoreThrows(p)

Next ==
  \/ \E tok \in CoreTokens, body \in CoreBodies : PostStart(tok, body)
  \/ \E tok \in CoreTokens, s \in Slugs, body \in CoreBodies : PutStart(tok, s, body)
  \/ Serve

NextInputs ==
  \/ \E tok \in Tokens, body \in Bodies : PostStart(tok, body)
  \/ \E tok \in Tokens, s \in Slugs, body \in Bodies : PutStart(tok, s, body)
  \/ Serve

\* The bodies of the runs in which every store call is answered.
LiveBodies == {FullBody, Unparsable, [FullBody EXCEPT !.price = NullV]}

InitLive == Start(MaxLiveReqs)

NextLive ==
  \/ \E tok \in CoreTokens, body \in LiveBodies : PostStart(tok, body)
  \/ \E tok \in CoreTokens, s \in Slugs, body \in LiveBodies : PutStart(tok, s, body)
  \/ \E s \in Slugs : GetStart(s)
  \/ ListStart
  \/ \E p \in Procs, up \in BOOLEAN : StoreReply(p, up)
  \/ \E p \in Procs : StoreThrows(p)

\* A deployment in which ADMIN_KEY is not set: process.env.ADMIN_KEY is
\* undefined.
InitNoSecret ==
  /\ rows \in {<<SampleMouse>>, <<SampleMouse, SampleHub>>}
  /\ nextId = 3
  /\ now = 1
  /\ envKey = Undef
  /\ inflight = [p \in Procs |-> Idle]
  /\ resp = NoResp
  /\ budget = MaxBareReqs
  /\ productsProp = <<>>
  /\ searchTerm = ""
  /\ selectedCategory = "all"
  /\ AdminMounted

NextNoSecret ==
  \/ \E tok \in Tokens, body \in CoreBodies \cup {Unparsable} : PostStart(tok, body)
  \/ \E tok \in Tokens, s \in Slugs, body \in CoreBodies \cup {Unparsable} :
       PutStart(tok, s, body)
  \/ Serve

\* The state in which the pages are requested: any of the catalogs.
InitPages ==
  /\ rows \in Catalogs
  /\ nextId = 11
  /\ now = 10
  /\ envKey = Secret
  /\ inflight = [p \in Procs |-> Idle]
  /\ resp = NoResp
  /\ budget = MaxPageReqs
  /\ productsProp = <<>>
  /\ searchTerm = ""
  /\ selectedCategory = "all"
  /\ AdminMounted

NextPages ==
  \/ HomeStart
  \/ DashboardStart
  \/ RecommendStart
  \/ ListStart
  \/ \E p \in Procs, up \in BOOLEAN : StoreReply(p, up)

\* The home page has rendered ProductList with a fetched list; the search
\* box is empty and the select shows "all" (the useState initial values).
InitFilter ==
  /\ rows = <<SampleMouse, SampleHub>>
  /\ nextId = 3
  /\ now = 1
  /\ envKey = Secret
  /\ inflight = [p \in Procs |-> Idle]
  /\ resp = NoResp
  /\ budget = 0
  /\ productsProp \in {<<>>, <<SampleMouse, SampleHub>>, SampleCatalog, CaseCatalog}
  /\ searchTerm = ""
  /\ selectedCategory = "all"
  /\ AdminMounted

NextFilter ==
  \/ \E term \in SearchTerms : setSearchTerm(term)
  \/ \E c \in {"all", "Electronics", "Accessories", "Audio", "Storage", "Kitchen"} :
       setSelectedCategory(c)

\* Overlapping requests with a few bodies.
Spec == Init /\ [][Next]_vars

\* Few requests with every body.
SpecInputs == InitInputs /\ [][NextInputs]_vars

\* The page queries and GET /api/products over the catalogs.
SpecPages == InitPages /\ [][NextPages]_vars

\* The admin page has been opened on a deployment with two products.
AdminStart(n) ==
  /\ rows = <<SampleMouse, [SampleHub EXCEPT !.created_at = 1, !.last_updated = 1]>>
  /\ nextId = 3
  /\ now = 2
  /\ envKey = Secret
  /\ inflight = [p \in Procs |-> Idle]
  /\ resp = NoResp
  /\ budget = n
  /\ productsProp = <<>>
  /\ searchTerm = ""
  /\ selectedCategory = "all"
  /\ AdminMounted

InitAdmin == AdminStart(MaxAdminReqs)

InitLogin == AdminStart(MaxLoginReqs)

InitFetch == AdminStart(MaxFetchReqs)

\* The texts typed into the inputs of the create form.
FormTexts ==
  {<<"name", "Hub Mini">>, <<"slug", "laptop-stand">>,
   <<"description", "4-in-1 hub">>, <<"price", "0">>, <<"category", "Adapters">>,
   <<"inventory", "3">>}

\* Editing products: the form is opened, changed, saved and cancelled.
NextAdmin ==
  \/ setAdminKey("admin123")
  \/ handleLogin
  \/ ToggleForm
  \/ \E k \in 1..2 : handleEdit(k)
  \/ handleCancel
  \/ \E ft \in {<<"name", "Hub Mini">>, <<"slug", "laptop-stand">>,
                <<"slug", "usb-c-hub">>} : setFormData(ft[1], ft[2])
  \/ handleSubmit
  \/ \E i \in 1..MaxAdminReqs, up \in BOOLEAN : SubmitServed(i, up)
  \/ \E i \in 1..MaxAdminReqs : SubmitSettles(i)
  \/ \E i \in 1..MaxAdminReqs : SubmitFails(i)
  \/ \E i \in 1..MaxAdminReqs, up \in BOOLEAN : FetchServed(i, up)
  \/ \E i \in 1..MaxAdminReqs : FetchSettles(i)
  \/ \E i \in 1..MaxAdminReqs : FetchFails(i)

\* Logging in and out, and creating a product.
NextLogin ==
  \/ \E text \in {"", "wrong", "admin123"} : setAdminKey(text)
  \/ handleLogin
  \/ Logout
  \/ ToggleForm
  \/ \E ft \in FormTexts : setFormData(ft[1], ft[2])
  \/ handleSubmit
  \/ \E i \in 1..MaxLoginReqs : SubmitServed(i, TRUE)
  \/ \E i \in 1..MaxLoginReqs : SubmitSettles(i)
  \/ \E i \in 1..MaxLoginReqs : FetchServed(i, TRUE)
  \/ \E i \in 1..MaxLoginReqs : FetchSettles(i)

\* Fetches of the product list that overlap and arrive in any order.
NextFetch ==
  \/ setAdminKey("admin123")
  \/ handleLogin
  \/ Logout
  \/ \E k \in 1..2 : handleEdit(k)
  \/ handleSubmit
  \/ \E i \in 1..MaxFetchReqs : SubmitServed(i, TRUE)
  \/ \E i \in 1..MaxFetchReqs : SubmitSettles(i)
  \/ \E i \in 1..MaxFetchReqs : FetchServed(i, TRUE)
  \/ \E i \in 1..MaxFetchReqs : FetchSettles(i)

\* The administrator editing products.
SpecAdmin == InitAdmin /\ [][NextAdmin]_vars

\* The administrator logging in and out and creating a product.
SpecLogin == InitLogin /\ [][NextLogin]_vars

\* The admin page's fetches of the product list.
SpecFetch == InitFetch /\ [][NextFetch]_vars

\* Requests to a deployment without ADMIN_KEY.
SpecNoSecret == InitNoSecret /\ [][NextNoSecret]_vars

\* Every store call a handler awaits is settled: it resolves, with a
\* result or an error, or it rejects.
SpecLive ==
  /\ InitLive
  /\ [][NextLive]_vars
  /\ \A p \in Procs :
       WF_vars((\E up \in BOOLEAN : StoreReply(p, up)) \/ StoreThrows(p))

\* The visitor typing and selecting on the rendered home page.
SpecFilter == InitFilter /\ [][NextFilter]_vars
---------------------------------------------------------------------------
\* Properties.

\* Handler p's store call of kind op is executed in this step.
\* The answers with which the store call failed as a whole.
StoreFailures == {"unavailable", "thrown"}

Replying(p, op) ==
  /\ inflight[p] # Idle
  /\ inflight[p].op = op
  /\ inflight'[p] = Idle

Answered(m) == resp.status # 0 /\ resp.req.method = m

RowOf(tbl, s) == tbl[CHOOSE i \in 1..Len(tbl) : tbl[i].slug = s]

\* C1: a POST or PUT whose x-admin-key differs from the configured secret
\* (absent header included) is answered 401 without a store call, whatever
\* its body; no such request ever waits on the store.
C1_BadTokenIs401 ==
  /\ (resp.status # 0 /\ resp.req.method \in {"POST", "PUT"} /\ resp.req.token # envKey)
       => (resp.status = 401 /\ resp.store = "uncalled")
  /\ \A p \in Procs :
       (inflight[p] # Idle /\ inflight[p].req.method \in {"POST", "PUT"})
         => inflight[p].req.token = envKey

\* C1 witness: an absent header with a body that misses name got 401.
C1_Witness ==
  /\ Answered("POST")
  /\ resp.req.token = NullV
  /\ resp.req.body # Unparsable
  /\ resp.req.body.name = Undef
  /\ resp.status = 401

\* C2: a step changes the table only by a POST answered 201 appending one
\* row, or by a PUT answered 200 rewriting the row of its slug; any other
\* step, and any other response, leaves every row as it was.
C2_RowsChangeOnlyBy201Or200 ==
  [][rows' # rows =>
       \/ /\ resp'.req.method = "POST"
          /\ resp'.status = 201
          /\ Len(rows') = Len(rows) + 1
          /\ SubSeq(rows', 1, Len(rows)) = rows
       \/ /\ resp'.req.method = "PUT"
          /\ resp'.status = 200
          /\ Len(rows') = Len(rows)
          /\ \A i \in 1..Len(rows) :
               rows[i].slug # resp'.req.slug => rows'[i] = rows[i]]_vars

\* C2 witness: a PUT was answered 200 while the table holds another row.
C2_Witness ==
  /\ Answered("PUT")
  /\ resp.status = 200
  /\ Len(rows) = 2
  /\ rows[1] # SampleMouse
  /\ rows[2] = SampleHub

ParsedPost ==
  /\ Answered("POST")
  /\ resp.req.token = envKey
  /\ resp.req.body # Unparsable

Rejected(body) ==
  \/ \E f \in {"name", "slug", "description", "category"} :
       body[f] \in {Undef, NullV, Str("")}
  \/ body.price = Undef
  \/ body.inventory = Undef

UniqueSlugs ==
  \A i, j \in 1..Len(rows) : rows[i].slug = rows[j].slug => i = j

\* C5: no two rows ever share a slug; the insert of a slug already in the
\* table is answered 500 and leaves the table as it was.
C5_SlugUnique ==
  /\ []UniqueSlugs
  /\ [][\A p \in Procs :
          (Replying(p, "insert") /\ SlugTaken(rows, inflight[p].req.body.slug.v))
            => (resp'.status = 500 /\ rows' = rows)]_vars

\* C5 witness: two creates of one slug overlapped; the second was refused
\* for the duplicate and one row has the slug.
C5_Witness ==
  /\ Answered("POST")
  /\ resp.status = 500
  /\ resp.store = "unique_violation"
  /\ resp.req.body.slug = Str("usb-c-hub")
  /\ Len(rows) = 2
  /\ rows[2].last_updated < resp.req.at
  /\ rows[2].created_at > resp.req.at

\* C6: a GET by slug answered while no row has the slug is 404, unless the
\* store itself failed to answer.
C6_UnknownSlugIs404 ==
  (Answered("GET") /\ ~SlugTaken(rows, resp.req.slug) /\ resp.store \notin StoreFailures)
    => resp.status = 404

\* C6 witness: after an update, a GET of a slug never created got 404.
C6_Witness ==
  /\ Answered("GET")
  /\ resp.status = 404
  /\ rows[1].last_updated > 0
  /\ ~SlugTaken(rows, resp.req.slug)

\* C7: on both read-by-key paths, not-found is produced only when the
\* store answered without error (and found no row).
C7_NotFoundOnlyWithoutError ==
  (resp.status # 0 /\ resp.req.method \in {"GET", "PAGE"} /\ resp.status = 404)
    => (resp.store = NoError /\ ~SlugTaken(rows, resp.req.slug))

\* The row a successful PUT of body must leave, given the row before.
Patched(row, body, after) ==
  [c \in DOMAIN row |->
     IF c \in UpdateFields /\ body[c] # Undef THEN body[c].v
     ELSE IF c = "last_updated" THEN after.last_updated
     ELSE row[c]]

\* C8: a PUT answered 200 sets, on the row of its slug, the fields of
\* name, description, price, category, inventory present in the body to the
\* body's values and last_updated to the handler's timestamp; every other
\* field and every other row keep their values; a PUT for an existing slug
\* without null values succeeds when the store answers, an empty body too,
\* and a PUT carrying a null for one of the five fields never succeeds.
C8_UpdateOnlySupplied ==
  [][\A p \in Procs :
       LET req == inflight[p].req
       IN Replying(p, "update") =>
            /\ resp'.req = req
            /\ (/\ SlugTaken(rows, req.slug)
                /\ \A f \in UpdateFields : req.body[f] # NullV
                /\ resp'.store \notin StoreFailures) => resp'.status = 200
            /\ resp'.status = 200 =>
                 /\ \A f \in UpdateFields : req.body[f] # NullV
                 /\ Len(rows') = Len(rows)
                 /\ \A i \in 1..Len(rows) :
                      rows'[i] = IF rows[i].slug = req.slug
                                 THEN Patched(rows[i], req.body, rows'[i])
                                 ELSE rows[i]
                 /\ RowOf(rows', req.slug).last_updated >= req.at
                 /\ resp'.data = RowOf(rows', req.slug)]_vars

\* C8 witness: a PUT carrying only price 0 was answered 200.
C8_Witness ==
  /\ Answered("PUT")
  /\ resp.status = 200
  /\ resp.req.body = [EmptyBody EXCEPT !.price = Num(0)]
  /\ resp.data.price = 0

\* C9: every successful update leaves the row's last_updated later than
\* it was before the update.
C9_LastUpdatedAdvances ==
  [][\A p \in Procs :
       (Replying(p, "update") /\ resp'.status = 200)
         => RowOf(rows', inflight[p].req.slug).last_updated
              > RowOf(rows, inflight[p].req.slug).last_updated]_vars

\* C10: a PUT with the correct token for a slug no row has is answered
\* 500, and the store call it makes leaves the table as it was.
C10_UpdateUnknownIs500 ==
  /\ [](Answered("PUT") /\ resp.req.token = envKey /\ ~SlugTaken(rows, resp.req.slug)
          => resp.status = 500)
  /\ [][\A p \in Procs :
          (Replying(p, "update") /\ ~SlugTaken(rows, inflight[p].req.slug))
            => /\ resp'.status = 500
               /\ resp'.store \in {"no_single_row"} \cup StoreFailures
               /\ rows' = rows]_vars

\* C10 witness: a parsed PUT for a slug no row has was answered 500.
C10_Witness ==
  /\ Answered("PUT")
  /\ resp.status = 500
  /\ resp.store = "no_single_row"
  /\ ~SlugTaken(rows, resp.req.slug)
  /\ rows = <<SampleMouse>>
\* C11: no step changes the id, the slug or the created_at of a row; a
\* PUT whose body carries slug, id and created_at leaves all three.
C11_KeyFieldsImmutable ==
  [][\A i \in 1..Len(rows) :
       /\ i <= Len(rows')
       /\ rows'[i].id = rows[i].id
       /\ rows'[i].slug = rows[i].slug
       /\ rows'[i].created_at = rows[i].created_at]_vars

\* C11 witness: a PUT whose body names another slug, id and created_at
\* was answered 200 and the row still has its own.
C11_Witness ==
  /\ Answered("PUT")
  /\ resp.status = 200
  /\ resp.req.body = OverpostBody
  /\ resp.data.slug = resp.req.slug
  /\ resp.data.id # 99
  /\ resp.data.created_at = 0
  /\ resp.data.price = 0

\* C12: no step removes a row: every (id, slug) in the table is still in
\* the table after the step.
C12_NoRowDeleted ==
  [][\A i \in 1..Len(rows) :
       \E j \in 1..Len(rows') :
         rows'[j].id = rows[i].id /\ rows'[j].slug = rows[i].slug]_vars

\* C12 witness: after a create, a GET of a sample slug is still answered
\* with the sample row.
C12_Witness ==
  /\ Answered("GET")
  /\ resp.status = 200
  /\ resp.data = SampleMouse
  /\ Len(rows) = 2
  /\ rows[2].id = 3
\* The sum of price times inventory over the products with index in S.
RECURSIVE ValueOver(_, _)
ValueOver(products, S) ==
  IF S = {} THEN 0
  ELSE LET i == CHOOSE j \in S : TRUE
       IN products[i].price * products[i].inventory + ValueOver(products, S \ {i})

\* C13: the dashboard aggregate of a fetched list has total count equal to
\* the list length and total value equal to the sum of price times
\* inventory; it is 25 for the two example products, and 0 with no
\* category for the empty list.
C13_AggregateTotals ==
  (Answered("DASHBOARD") /\ resp.store = NoError) =>
    LET d == resp.data
    IN /\ Len(d.products) = Len(rows)
       /\ d.totalProducts = Len(d.products)
       /\ d.totalValue = ValueOver(d.products, 1..Len(d.products))
       /\ rows = ExampleCatalog => d.totalValue = 25
       /\ rows = <<>> => (d.totalValue = 0 /\ DOMAIN d.categories = {})

\* C13 witness: the aggregate of the two example products is 25.
C13_Witness ==
  /\ Answered("DASHBOARD")
  /\ resp.store = NoError
  /\ rows = ExampleCatalog
  /\ resp.data.totalProducts = 2
  /\ resp.data.totalValue = 25

\* The k-th product, in list order, with inventory below 5.
KthLow(products, k) ==
  products[CHOOSE i \in 1..Len(products) :
             /\ products[i].inventory < 5
             /\ Cardinality({j \in 1..(i - 1) : products[j].inventory < 5}) = k - 1]

RECURSIVE CountSum(_, _)
CountSum(f, S) ==
  IF S = {} THEN 0
  ELSE LET c == CHOOSE d \in S : TRUE IN f[c].v + CountSum(f, S \ {c})

\* C14: the low-stock list is the products with inventory below 5, all of
\* them and no other, in fetched order; the category object has one key per
\* category in the list, mapped to the number of its products, so each
\* count is at least 1, the counts add up to the total, and a category
\* share is never taken of a total of 0.
C14_LowStockAndCategories ==
  Answered("DASHBOARD") =>
    LET d == resp.data
        n == Len(d.products)
    IN /\ Len(d.lowStockProducts)
            = Cardinality({i \in 1..n : d.products[i].inventory < 5})
       /\ \A k \in 1..Len(d.lowStockProducts) :
            d.lowStockProducts[k] = KthLow(d.products, k)
       /\ DOMAIN d.categories = {d.products[i].category : i \in 1..n}
       /\ \A c \in DOMAIN d.categories :
            /\ d.categories[c].tag = "number"
            /\ d.categories[c].v
                 = Cardinality({i \in 1..n : d.products[i].category = c})
            /\ d.categories[c].v >= 1
            /\ d.totalProducts > 0
       /\ CountSum(d.categories, DOMAIN d.categories) = d.totalProducts

\* C15: the recommended list has at most 6 items, each a row of the table
\* with inventory of at least 10 and none twice, in non-increasing price;
\* no row with inventory of at least 10 left out has a higher price than a
\* returned one, and fewer than 6 are returned only when fewer than 6 rows
\* have inventory of at least 10.
C15_RecommendedTopSix ==
  (Answered("RECOMMEND") /\ resp.store = NoError) =>
    LET rec == resp.data
        eligible == {i \in 1..Len(rows) : rows[i].inventory >= 10}
    IN /\ Len(rec) <= 6
       /\ \A k \in 1..Len(rec) :
            /\ rec[k].inventory >= 10
            /\ \E i \in eligible : rows[i] = rec[k]
       /\ \A k, l \in 1..Len(rec) :
            /\ k < l => rec[k].price >= rec[l].price
            /\ k # l => rec[k].id # rec[l].id
       /\ \A i \in eligible :
            (\A k \in 1..Len(rec) : rec[k] # rows[i])
              => \A k \in 1..Len(rec) : rows[i].price <= rec[k].price
       /\ Len(rec) < 6 => Len(rec) = Cardinality(eligible)

\* C15 witness: of seven eligible rows six are returned, the row with
\* inventory exactly 10 among them.
C15_Witness ==
  /\ Answered("RECOMMEND")
  /\ resp.store = NoError
  /\ rows = GrownCatalog
  /\ Len(resp.data) = 6
  /\ \E k \in 1..6 : resp.data[k].inventory = 10
  /\ resp.data[6].slug = "phone-stand"

\* seq lists every row of tbl exactly once.
ListsAll(seq, tbl) ==
  /\ Len(seq) = Len(tbl)
  /\ \A i \in 1..Len(tbl) : Cardinality({k \in 1..Len(seq) : seq[k] = tbl[i]}) = 1

\* C16: when the store answers, GET /api/products and the home page get
\* every row exactly once in non-increasing created_at, and the dashboard
\* gets every row exactly once in non-decreasing inventory.
C16_ListAllComplete ==
  /\ (Answered("LIST") /\ resp.store = NoError) =>
       /\ resp.status = 200
       /\ ListsAll(resp.data.v, rows)
       /\ \A k, l \in 1..Len(resp.data.v) :
            k < l => resp.data.v[k].created_at >= resp.data.v[l].created_at
  /\ (Answered("HOME") /\ resp.store = NoError) =>
       /\ ListsAll(resp.data, rows)
       /\ \A k, l \in 1..Len(resp.data) :
            k < l => resp.data[k].created_at >= resp.data[l].created_at
  /\ (Answered("DASHBOARD") /\ resp.store = NoError) =>
       /\ ListsAll(resp.data.products, rows)
       /\ \A k, l \in 1..Len(resp.data.products) :
            k < l => resp.data.products[k].inventory <= resp.data.products[l].inventory

\* C16 witness: the home page got the ten rows of the grown catalog, the
\* newest first.
C16_Witness ==
  /\ Answered("HOME")
  /\ resp.store = NoError
  /\ rows = GrownCatalog
  /\ Len(resp.data) = 10
  /\ resp.data[1].slug = "portable-ssd-1tb"
  /\ resp.data[2].slug = "monitor-27"

\* C17: on a store error getProducts and getRecommendedProducts return
\* the empty list and getDashboardData the zero aggregate, which is also
\* the aggregate of an empty catalog; GET /api/products answers 500.
C17_StoreErrorGivesEmpty ==
  LET zero == [products |-> <<>>, totalProducts |-> 0, lowStockProducts |-> <<>>,
               totalValue |-> 0, categories |-> <<>>]
  IN /\ (resp.status # 0 /\ resp.req.method \in {"HOME", "RECOMMEND"}
           /\ resp.store # NoError) => (resp.status = 200 /\ resp.data = <<>>)
     /\ (Answered("DASHBOARD") /\ resp.store # NoError)
          => (resp.status = 200 /\ resp.data = zero)
     /\ (Answered("DASHBOARD") /\ resp.store = NoError /\ rows = <<>>)
          => resp.data = zero
     /\ (Answered("LIST") /\ resp.store # NoError) => resp.status = 500

\* C17 witness: the home page's query failed on a table that has rows and
\* returned the empty list.
C17_Witness ==
  /\ Answered("HOME")
  /\ resp.store = "unavailable"
  /\ rows = GrownCatalog
  /\ resp.status = 200
  /\ resp.data = <<>>
\* a and b are the same letter up to case.
SameLetter(a, b) ==
  \/ a = b
  \/ \E u \in DOMAIN LowerCase : {a, b} = {u, LowerCase[u]}

\* The term occurs in the name when case is ignored.
ContainsIgnoringCase(name, term) ==
  \E off \in 0..(Len(Chars[name]) - Len(Chars[term])) :
    \A j \in 1..Len(Chars[term]) : SameLetter(Chars[name][off + j], Chars[term][j])

\* The positions of the products that the filter is to keep.
Kept ==
  {i \in 1..Len(productsProp) :
     /\ ContainsIgnoringCase(productsProp[i].name, searchTerm)
     /\ (selectedCategory = "all" \/ productsProp[i].category = selectedCategory)}

\* C18: the filtered list holds exactly the products whose name contains
\* the search term with case ignored and whose category is the selected
\* one (any category under "all"), in the order of the list; all of the
\* list for the empty term under "all"; only Wireless Mouse for "mouse"
\* under "all" over the ten sample rows.
C18_FilterExact ==
  /\ Len(filteredProducts) = Cardinality(Kept)
  /\ \A k \in 1..Len(filteredProducts) :
       \E i \in Kept :
         /\ Cardinality({j \in Kept : j < i}) = k - 1
         /\ filteredProducts[k] = productsProp[i]
  /\ (searchTerm = "" /\ selectedCategory = "all") => filteredProducts = productsProp
  /\ (searchTerm = "mouse" /\ selectedCategory = "all" /\ productsProp = SampleCatalog)
       => filteredProducts = <<SampleMouse>>

\* C18 witness: "mouse" under "all" over the ten sample rows leaves one
\* product of ten.
C18_Witness ==
  /\ productsProp = SampleCatalog
  /\ Len(productsProp) = 10
  /\ searchTerm = "mouse"
  /\ selectedCategory = "all"
  /\ Len(filteredProducts) = 1
  /\ filteredProducts[1].name = "Wireless Mouse"
\* C19: when a PUT is answered 200 right after another PUT of the same
\* slug was answered 200, the row holds, for each field the later-applied
\* request supplied, that request's value, and for each field only the
\* earlier-applied one supplied, the earlier one's value; last_updated is
\* the later-applied request's timestamp.  A PUT for an existing slug
\* without null values is answered 200 whenever the store answers, also
\* while another PUT of the slug is in flight or has just been applied.
C19_LastWriteWins ==
  [][\A q \in Procs :
       Replying(q, "update") =>
         LET req == inflight[q].req
             other == \/ \E p \in Procs \ {q} :
                           /\ inflight[p] # Idle
                           /\ inflight[p].op = "update"
                           /\ inflight[p].req.slug = req.slug
                      \/ /\ Answered("PUT")
                         /\ resp.status = 200
                         /\ resp.req.slug = req.slug
         IN /\ (/\ other
                /\ SlugTaken(rows, req.slug)
                /\ \A f \in UpdateFields : req.body[f] # NullV
                /\ resp'.store \notin StoreFailures) => resp'.status = 200
            /\ (/\ resp'.status = 200
                /\ Answered("PUT")
                /\ resp.status = 200
                /\ resp.req.slug = req.slug)
                 => LET row == RowOf(rows', req.slug)
                    IN /\ \A f \in UpdateFields :
                            /\ req.body[f] # Undef => row[f] = req.body[f].v
                            /\ (req.body[f] = Undef /\ resp.req.body[f] # Undef)
                                 => row[f] = resp.req.body[f].v
                       /\ row.last_updated = req.at]_vars

\* C19 witness: two PUTs of one slug were both answered 200, the one
\* received first (price) applied after the one received second (name);
\* the row holds the name of the one and the price of the other.
C19_Witness ==
  /\ Answered("PUT")
  /\ resp.status = 200
  /\ resp.req.body = [EmptyBody EXCEPT !.price = Num(0)]
  /\ resp.req.at = 1
  /\ RowOf(rows, resp.req.slug).name = "Hub Mini"
  /\ RowOf(rows, resp.req.slug).price = 0
  /\ RowOf(rows, resp.req.slug).last_updated = 1
ApiMethods == {"GET", "LIST", "POST", "PUT"}

\* The status the API documents for a request, given the table the store
\* holds when the request is answered and whether the store call failed.
ExpectedStatus(req, tbl, failed) ==
  CASE req.method = "LIST" -> IF failed THEN 500 ELSE 200
    [] req.method = "GET" ->
         IF failed THEN 500
         ELSE IF SlugTaken(tbl, req.slug) THEN 200 ELSE 404
    [] req.method = "POST" ->
         IF req.token # envKey THEN 401
         ELSE IF req.body = Unparsable THEN 500
         ELSE IF Rejected(req.body) THEN 400
         ELSE IF failed THEN 500
         ELSE IF \E f \in BodyFields : req.body[f] = NullV THEN 500
         ELSE IF SlugTaken(tbl, req.body.slug.v) THEN 500
         ELSE 201
    [] req.method = "PUT" ->
         IF req.token # envKey THEN 401
         ELSE IF req.body = Unparsable THEN 500
         ELSE IF failed THEN 500
         ELSE IF ~SlugTaken(tbl, req.slug) THEN 500
         ELSE IF \E f \in UpdateFields : req.body[f] = NullV THEN 500
         ELSE 200

\* C20: a response to one of the four endpoints has status 200, 201, 400,
\* 401, 404 or 500; a request is answered once: a handler awaiting the
\* store stays so until the step that answers its request and frees it,
\* and every response is either that of a handler being freed or of the
\* request just received; the status depends only on the request, the
\* table and whether the store call failed, not on earlier requests; and
\* every handler awaiting the store is eventually freed.
C20_OneResponseEach ==
  /\ []((resp.status # 0 /\ resp.req.method \in ApiMethods)
          => resp.status \in {200, 201, 400, 401, 404, 500})
  /\ [][/\ \A p \in Procs :
             inflight[p] # Idle =>
               \/ inflight'[p] = inflight[p]
               \/ /\ inflight'[p] = Idle
                  /\ resp'.req = inflight[p].req
                  /\ \A q \in Procs \ {p} : inflight'[q] = inflight[q]
       /\ resp' # resp =>
            /\ \/ /\ budget' = budget
                  /\ \E p \in Procs : inflight[p] # Idle /\ inflight'[p] = Idle
               \/ /\ budget' = budget - 1
                  /\ inflight' = inflight
                  /\ resp'.store = "uncalled"
                  /\ resp'.req.at = now
            /\ resp'.req.method \in ApiMethods =>
                 resp'.status
                   = ExpectedStatus(resp'.req, rows, resp'.store \in StoreFailures)]_vars
  /\ \A p \in Procs : (inflight[p] # Idle) ~> (inflight[p] = Idle)

\* C20 witness: the second of two requests, a PUT for an existing slug
\* whose store call threw, was answered 500 and no handler is left waiting.
C20_Witness ==
  /\ Answered("PUT")
  /\ resp.status = 500
  /\ resp.store = "thrown"
  /\ resp.req.at = 2
  /\ budget = 0
  /\ SlugTaken(rows, resp.req.slug)
  /\ \A p \in Procs : inflight[p] = Idle
\* C21: a handler or page query in flight has issued its store call once;
\* a store call is issued only in the step that receives its request; the
\* step in which the store answers, with a result or an error, or throws,
\* frees the handler and answers that request; and a response of 401 or
\* 400 was given without a store call.
C21_NoRetry ==
  /\ [](\A p \in Procs : inflight[p] # Idle => inflight[p].attempt = 1)
  /\ []((resp.status \in {400, 401}) => resp.store = "uncalled")
  /\ [][\A p \in Procs :
          /\ (inflight[p] = Idle /\ inflight'[p] # Idle)
               => /\ budget' = budget - 1
                  /\ inflight'[p].req.at = now
                  /\ resp' = resp
          /\ (inflight[p] # Idle /\ inflight'[p] # inflight[p])
               => /\ inflight'[p] = Idle
                  /\ resp'.req = inflight[p].req
                  /\ resp'.store # "uncalled"
                  /\ (resp'.store # NoError /\ resp'.req.method \in {"GET", "LIST", "POST", "PUT"})
                       => (resp'.status = 500 /\ rows' = rows)]_vars

\* C21 witness: the store call of a POST threw, the POST was answered 500
\* and no handler is left with a call in flight.
C21_Witness ==
  /\ Answered("POST")
  /\ resp.status = 500
  /\ resp.store = "thrown"
  /\ \A p \in Procs : inflight[p] = Idle

\* C22: a POST with the correct token whose price or inventory is null
\* (what JSON.stringify makes of NaN) is answered 400 without a store call.
C22_MalformedIs400 ==
  (ParsedPost /\ \E f \in {"price", "inventory"} : resp.req.body[f] = NullV)
    => (resp.status = 400 /\ resp.store = "uncalled")

\* C29: without a configured secret every POST and PUT is answered 401
\* without a store call, whatever the header is, and the table never
\* changes.
C29_NoSecretNoMutation ==
  /\ [](envKey = Undef)
  /\ []((resp.status # 0 /\ resp.req.method \in {"POST", "PUT"})
          => (resp.status = 401 /\ resp.store = "uncalled"))
  /\ [][rows' = rows]_vars

\* C29 witness: a POST without the header was answered 401 by a deployment
\* without a secret.
C29_Witness ==
  /\ envKey = Undef
  /\ Answered("POST")
  /\ resp.req.token = NullV
  /\ resp.req.body = FullBody
  /\ resp.status = 401
\* The submits of the admin page that are PUT requests.
PutsSent == {i \in 1..Len(submits) : submits[i].method = "PUT"}

\* C23: while a product is being edited the form's slug is that product's
\* slug; a product becomes the one being edited only by its Edit button,
\* which puts its slug into the form; and every PUT the page sends goes to
\* the slug of the product being edited, with that slug in the body.
C23_SlugFixedWhileEditing ==
  /\ [](editingProduct # NoProduct => formData.slug = editingProduct.slug)
  /\ [](\A i \in PutsSent :
          /\ submits[i].editing # NoProduct
          /\ submits[i].slug = submits[i].editing.slug
          /\ submits[i].body.slug = Str(submits[i].slug))
  /\ [][/\ (editingProduct' # editingProduct /\ editingProduct' # NoProduct)
             => /\ \E k \in 1..Len(productsState.v) : productsState.v[k] = editingProduct'
                /\ formData'.slug = editingProduct'.slug
        /\ (Len(submits') > Len(submits) /\ editingProduct # NoProduct)
             => /\ submits'[Len(submits')].method = "PUT"
                /\ submits'[Len(submits')].slug = editingProduct.slug]_vars

\* C23 witness: the product usb-c-hub was edited, its name changed in the
\* form, and the PUT sent to its slug was answered 200.
C23_Witness ==
  \E i \in PutsSent :
    /\ submits[i].slug = "usb-c-hub"
    /\ submits[i].body.slug = Str("usb-c-hub")
    /\ submits[i].body.name = Str("Hub Mini")
    /\ submits[i].state = "done"
    /\ submits[i].response.status = 200

\* C24: when the response of a save arrives and is ok, the form is closed,
\* editingProduct is null, the inputs are empty, a success message is set
\* and one fetch of the product list is started; when it is not ok, or the
\* request fails on the network, showForm, editingProduct and the inputs
\* stay as they are, the message is the error text and no fetch is started.
C24_SubmitOutcome ==
  [][\A i \in 1..Len(submits) :
       (submits[i].state \in {"sent", "answered"}
          /\ submits'[i].state \in {"done", "failed"})
         => IF submits'[i].state = "done" /\ submits[i].response.status \in {200, 201}
            THEN /\ ~showForm'
                 /\ editingProduct' = NoProduct
                 /\ formData' = EmptyForm
                 /\ formMessage' \in {"Product updated successfully!",
                                      "Product created successfully!"}
                 /\ Len(fetches') = Len(fetches) + 1
                 /\ fetches'[Len(fetches')].state = "sent"
                 /\ loading'
            ELSE /\ showForm' = showForm
                 /\ editingProduct' = editingProduct
                 /\ formData' = formData
                 /\ formMessage' # ""
                 /\ formMessage' \notin {"Product updated successfully!",
                                         "Product created successfully!"}
                 /\ submits'[i].state = "done"
                      => formMessage' = ErrorText(submits[i].response)
                 /\ fetches' = fetches
                 /\ loading' = loading]_vars

\* C24 witness: a save was answered 500; the form is still open on the
\* product with the changed name and shows the error text.
C24_Witness ==
  \E i \in 1..Len(submits) :
    /\ submits[i].state = "done"
    /\ submits[i].response.status = 500
    /\ showForm
    /\ editingProduct # NoProduct
    /\ formData.name = "Hub Mini"
    /\ formMessage = "unavailable"
    /\ Len(fetches) = 1

\* C25: a product being edited implies the form is shown, and a step that
\* opens the form without choosing a product (the Add Product button) opens
\* it with no product being edited, so that its save is a POST.
C25_FormModeConsistent ==
  /\ [](editingProduct # NoProduct => showForm)
  /\ [][(~showForm /\ showForm' /\ editingProduct' = editingProduct)
          => editingProduct' = NoProduct]_vars

\* C27: the products state of the admin page is a list.
C27_ProductsIsList ==
  productsState.tag = "array"

\* C26: while authenticated the key is the accepted one; a save is started
\* only while authenticated; and every save carries the accepted key.
C26_AuthenticatedKey ==
  /\ [](isAuthenticated => adminKey = "admin123")
  /\ [](\A i \in 1..Len(submits) : submits[i].token = Str("admin123"))
  /\ [][Len(submits') > Len(submits) => isAuthenticated]_vars

\* C26 witness: after the login a create was sent with the accepted key
\* and answered 201, and its refetch was started.
C26_Witness ==
  /\ isAuthenticated
  /\ Len(fetches) = 2
  /\ \E i \in 1..Len(submits) :
       /\ submits[i].method = "POST"
       /\ submits[i].token = Str("admin123")
       /\ submits[i].state = "done"
       /\ submits[i].response.status = 201

\* A fetch of the product list that has not completed.
Pending == {i \in 1..Len(fetches) : fetches[i].state \in {"sent", "answered"}}

\* loading is true exactly while a fetch is in flight.
LoadingWhilePending == Len(fetches) > 0 => (loading <=> Pending # {})

\* After a successful save, with no fetch in flight, the products are the
\* response of the fetch started last and hold every row of the table.
LatestFetchShown ==
  ((\E i \in 1..Len(submits) :
      submits[i].state = "done" /\ submits[i].response.status \in {200, 201})
   /\ Pending = {})
    => /\ productsState = Json(fetches[Len(fetches)].response)
       /\ ListsAll(productsState.v, rows)

\* C28: after a successful save, once no fetch is in flight, the products
\* are the response of the fetch started last and include the saved
\* change, and loading is true exactly while a fetch is in flight.
C28_LatestFetchWins ==
  LoadingWhilePending /\ LatestFetchShown
====
